---------------------------- MODULE Spec2Model ----------------------------
(***************************************************************************)
(* Voice shopping assistant: the session store (voice-session.service.ts)  *)
(* and the request handlers that drive it (api.voice.process-audio,        *)
(* api.voice.end-session, api.voice.start-session, voice add-to-cart).     *)
(*                                                                         *)
(* Every handler is an async function; each `await` on the document store  *)
(* is a point where another request may run, so each store read and each   *)
(* store write of a handler is one action of the model.  A request in      *)
(* flight is a record in `calls` holding the handler's local variables     *)
(* and its position (pc).                                                  *)
(***************************************************************************)
EXTENDS Integers, Sequences, FiniteSets, TLC

\* ------------------------------------------------------------------ bounds
\* Session ids the id generator may hand out.
MaxSessions == 1
\* Request slots: handlers that may be in flight at the same time.
MaxCalls == 2
\* Requests started in one behaviour (start-session not counted).
MaxOps == 2
\* Times the wall clock is observed to advance.
MaxTicks == 1

Sids == 1..MaxSessions
CallIds == 1..MaxCalls

\* ------------------------------------------------------- optional values
\* A JavaScript optional (`x?: T`): absent is the empty set, present a singleton.
None == {}
Some(x) == {x}
The(o) == CHOOSE x \in o : TRUE

\* The store holds no document under this id.
Absent == [exists |-> FALSE]

\* ------------------------------------------------------------ the clock
\* The clock counts whole seconds; Date.getTime() is in milliseconds.
MsPerSecond == 1000
\* cleanupAbandonedSessions: 60 * 60 * 1000 ms.
OneHourMs == 3600000
\* Steps by which the clock is observed to advance: a second, or just over an hour.
TickSteps == {1, 3601}
GetTime(t) == t * MsPerSecond

VARIABLES sessions, calls, now, ticks, ops, cart

vars == <<sessions, calls, now, ticks, ops, cart>>

\* ------------------------------------------------------------- utterances
\* A text is a sequence of words; a regular expression \b(w1|w2|...)\b matches
\* when one of the alternatives occurs as a word (or, for a two-word
\* alternative, as two adjacent words) of the lower-cased text.
ToLowerCase(w) ==
  CASE w = "Find" -> "find"
    [] w = "Add" -> "add"
    [] w = "Next" -> "next"
    [] w = "Searching" -> "searching"
    [] OTHER -> w

Lower(text) == [i \in 1..Len(text) |-> ToLowerCase(text[i])]

HasPhrase(text, p) ==
  \E i \in 1..Len(text) :
    /\ i + Len(p) - 1 <= Len(text)
    /\ SubSeq(text, i, i + Len(p) - 1) = p

Matches(text, alternatives) == \E p \in alternatives : HasPhrase(text, p)


\* ------------------------------------------------------ assistant engine
\* A record used as a JavaScript object: field k, or undefined when it has none.
Field(obj, k) == IF k \in DOMAIN obj THEN Some(obj[k]) ELSE None

\* {...a, ...b}
Spread(a, b) ==
  [k \in (DOMAIN a) \cup (DOMAIN b) |-> IF k \in DOMAIN b THEN b[k] ELSE a[k]]

FallbackText == <<"I'm", "having", "trouble", "processing", "that", "right", "now">>

\* Variant that tries the order_status rule before the checkout rule.
detectIntentOrderStatusFirst(userInput, responseText) ==
  LET input == Lower(userInput)
      response == Lower(responseText)
  IN  IF /\ Matches(input, {<<"find">>, <<"search">>, <<"looking", "for">>,
                            <<"show", "me">>, <<"need">>})
         /\ Matches(input, {<<"product">>, <<"item">>, <<"clothing">>,
                            <<"shoe">>, <<"dress">>, <<"shirt">>})
      THEN "product_search"
      ELSE IF /\ Matches(input, {<<"add">>, <<"put">>, <<"place">>})
              /\ Matches(input, {<<"cart">>, <<"bag">>, <<"basket">>})
      THEN "add_to_cart"
      ELSE IF /\ Matches(input, {<<"order">>, <<"tracking">>, <<"delivery">>,
                                 <<"shipping">>, <<"status">>})
              /\ Matches(input, {<<"where">>, <<"when">>, <<"track">>, <<"status">>})
      THEN "order_status"
      ELSE IF Matches(input, {<<"checkout">>, <<"buy">>, <<"purchase">>,
                              <<"pay">>, <<"order">>})
      THEN "checkout"
      ELSE IF \/ Matches(input, {<<"next">>, <<"continue">>, <<"proceed">>, <<"back">>})
              \/ Matches(response, {<<"step">>, <<"stage">>, <<"funnel">>})
      THEN "funnel_navigation"
      ELSE "general_help"

detectIntent(userInput, responseText) ==
  LET input == Lower(userInput)
      response == Lower(responseText)
  IN  IF /\ Matches(input, {<<"find">>, <<"search">>, <<"looking", "for">>,
                            <<"show", "me">>, <<"need">>})
         /\ Matches(input, {<<"product">>, <<"item">>, <<"clothing">>,
                            <<"shoe">>, <<"dress">>, <<"shirt">>})
      THEN "product_search"
      ELSE IF /\ Matches(input, {<<"add">>, <<"put">>, <<"place">>})
              /\ Matches(input, {<<"cart">>, <<"bag">>, <<"basket">>})
      THEN "add_to_cart"
      ELSE IF Matches(input, {<<"checkout">>, <<"buy">>, <<"purchase">>,
                              <<"pay">>, <<"order">>})
      THEN "checkout"
      ELSE IF /\ Matches(input, {<<"order">>, <<"tracking">>, <<"delivery">>,
                                 <<"shipping">>, <<"status">>})
              /\ Matches(input, {<<"where">>, <<"when">>, <<"track">>, <<"status">>})
      THEN "order_status"
      ELSE IF \/ Matches(input, {<<"next">>, <<"continue">>, <<"proceed">>, <<"back">>})
              \/ Matches(response, {<<"step">>, <<"stage">>, <<"funnel">>})
      THEN "funnel_navigation"
      ELSE "general_help"

\* The text between the quotes of a quoted word of a reply, if it is one.
QuotedContent(w) ==
  CASE w = "'red dress'" -> Some("red dress")
    [] OTHER -> None

\* /search(?:ing)? for ["']([^"']+)["']/i : the first match, if any.
SearchMatch(responseText) ==
  LET hits == {i \in 1..Len(responseText) :
                 /\ i + 2 <= Len(responseText)
                 /\ ToLowerCase(responseText[i]) \in {"search", "searching"}
                 /\ ToLowerCase(responseText[i + 1]) = "for"
                 /\ QuotedContent(responseText[i + 2]) # None}
  IN  IF hits = {} THEN None
      ELSE LET first == CHOOSE i \in hits : \A j \in hits : i <= j
           IN  QuotedContent(responseText[first + 2])

extractActions(responseText, intent, context) ==
  CASE intent = "product_search" ->
         IF SearchMatch(responseText) # None
         THEN <<[type |-> "search_products",
                 data |-> [query |-> The(SearchMatch(responseText))]]>>
         ELSE <<>>
    [] intent = "add_to_cart" ->
         IF "currentProducts" \in DOMAIN context /\ Len(context.currentProducts) > 0
         THEN <<[type |-> "add_to_cart",
                 data |-> [productId |-> context.currentProducts[1].id]]>>
         ELSE <<>>
    [] intent = "checkout" ->
         <<[type |-> "navigate_to_checkout", data |-> <<>>]>>
    [] intent = "funnel_navigation" ->
         <<[type |-> "navigate_funnel", data |-> [direction |-> "next"]]>>
    [] intent = "order_status" ->
         <<[type |-> "show_orders", data |-> [customerId |-> context.customerId]]>>
    [] OTHER -> <<>>

\* generateAssistantResponse: `reply` is what chat.sendMessage returned, None
\* when it threw.  suggestedActions is optional in AssistantResponse: the
\* catch branch returns an object without it.
generateAssistantResponse(userInput, context, reply) ==
  IF reply # None
  THEN LET responseText == The(reply)
           intent == detectIntent(userInput, responseText)
       IN  [text |-> responseText,
            intent |-> intent,
            suggestedActions |-> Some(extractActions(responseText, intent, context))]
  ELSE [text |-> FallbackText,
        intent |-> "unknown",
        suggestedActions |-> None]

\* ----------------------------------------------------------- the store
\* A ConversationMessage.  Its timestamp is written and never read by any
\* handler, and is left out.
Message(role, content) == [role |-> role, content |-> content]

\* The document createVoiceSession writes.  metadata.deviceType, userAgent
\* and ipAddress are stored and never read again, and are left out.  The
\* context is an AssistantContext: its optional fields are None until set (its
\* conversationHistory copy stays empty for ever and is left out).
NewSession(sid, customerId, language, t) ==
  [exists |-> TRUE,
   sessionId |-> sid,
   customerId |-> customerId,
   startTime |-> t,
   endTime |-> None,
   status |-> "active",
   language |-> IF language # None THEN The(language) ELSE "en-US",
   conversationHistory |-> <<>>,
   context |-> [customerId |-> customerId,
                language |-> IF language # None THEN The(language) ELSE "en-US",
                funnelStage |-> None,
                currentProducts |-> None],
   metadata |-> [totalMessages |-> 0, totalDuration |-> None],
   analytics |-> [intents |-> <<>>,
                  productsDiscussed |-> <<>>,
                  conversionsAttempted |-> 0,
                  satisfactionScore |-> None]]

\* getVoiceSession: the document, or null.
getVoiceSession(sid) == sessions[sid]

\* getConversationHistory: session?.conversationHistory || []
getConversationHistory(sid) ==
  IF sessions[sid].exists THEN sessions[sid].conversationHistory ELSE <<>>

\* getTotalMessages: session?.metadata.totalMessages || 0
getTotalMessages(sid) ==
  IF sessions[sid].exists THEN sessions[sid].metadata.totalMessages ELSE 0

\* intents[intent] || 0
IntentCount(intents, intent) ==
  IF intent \in DOMAIN intents THEN intents[intent] ELSE 0

Terminal(status) == status \in {"completed", "abandoned"}

\* --------------------------------------------------------- requests
\* The local variables of a handler in flight.
NoResult == [status |-> 0]

IdleCall ==
  [kind |-> "idle", pc |-> "idle", sid |-> 0, session |-> Absent,
   transcript |-> <<>>, msg |-> Message("none", <<>>), intent |-> None,
   rHist |-> <<>>, rTotal |-> 0, rAna |-> None,
   ctx |-> None, ai |-> None, todo |-> <<>>, hook |-> "none",
   arg |-> None, read |-> None, found |-> {},
   ret |-> "idle", result |-> NoResult]

Free(c) == calls[c].pc \in {"idle", "done"}

\* A new request takes an idle slot, or, when none is idle, the slot of a
\* request that has returned.
Takes(c) ==
  /\ Free(c)
  /\ ops < MaxOps
  /\ \/ calls[c].pc = "idle" /\ \A d \in CallIds : calls[d].pc = "idle" => c <= d
     \/ \A d \in CallIds : calls[d].pc # "idle"

Begin(c, call) ==
  /\ Takes(c)
  /\ calls' = [calls EXCEPT ![c] = call]
  /\ ops' = ops + 1

\* A handler that has returned keeps only what it answered.
Finish(call, result) ==
  [IdleCall EXCEPT !.kind = call.kind, !.sid = call.sid, !.pc = "done",
                   !.result = result]

\* A service function returns to its caller (calls[c].ret); called on its
\* own, its return ends the request.
Resume(call) ==
  IF call.ret = "done"
  THEN Finish(call, call.result)
  ELSE [call EXCEPT !.pc = call.ret, !.arg = None, !.read = None,
                    !.rHist = <<>>, !.rTotal = 0, !.rAna = None]

\* --------------------------------------------------------------- Init
Init ==
  /\ sessions = [s \in Sids |-> Absent]
  /\ calls = [c \in CallIds |-> IdleCall]
  /\ now = 0
  /\ ticks = 0
  /\ ops = 0
  /\ cart = <<>>

Tick ==
  /\ ticks < MaxTicks
  /\ \E d \in TickSteps : now' = now + d
  /\ ticks' = ticks + 1
  /\ UNCHANGED <<sessions, calls, ops, cart>>

\* ------------------------------------------------- session lifecycle
\* POST /api/voice/start-session.  The customer query decides customerId (a
\* guest has none); generateSessionId yields an id not in use.  A guest's
\* document holds `customerId: undefined`, which the store either drops or
\* rejects, by a setting made outside these files; a rejected write is the
\* handler's 500 and stores nothing.
CustomerIds == {None, Some("cust1")}
LanguageInputs == {None, Some("en-US")}

StartSession ==
  /\ \E sid \in Sids, customerId \in CustomerIds, language \in LanguageInputs :
       /\ ~sessions[sid].exists
       /\ \A other \in Sids : ~sessions[other].exists => sid <= other
       /\ \/ sessions' = [sessions EXCEPT ![sid] = NewSession(sid, customerId, language, now)]
          \/ customerId = None /\ UNCHANGED sessions
  /\ UNCHANGED <<calls, now, ticks, ops, cart>>

\* pauseVoiceSession: one update.  update() of a document that does not
\* exist rejects and writes nothing.
PauseSession ==
  /\ ops < MaxOps
  /\ \E sid \in Sids :
       sessions' = IF sessions[sid].exists
                   THEN [sessions EXCEPT ![sid].status = "paused"]
                   ELSE sessions
  /\ ops' = ops + 1
  /\ UNCHANGED <<calls, now, ticks, cart>>

\* resumeVoiceSession: one update.

ResumeSession ==
  /\ ops < MaxOps
  /\ \E sid \in Sids :
       sessions' = IF sessions[sid].exists
                   THEN [sessions EXCEPT ![sid].status = "active"]
                   ELSE sessions
  /\ ops' = ops + 1
  /\ UNCHANGED <<calls, now, ticks, cart>>

\* cleanupAbandonedSessions: the query, then the batch.
OneHourAgo == GetTime(now) - OneHourMs

SweepBegin(c) ==
  /\ Begin(c, [IdleCall EXCEPT !.kind = "sweep", !.pc = "sw_query"])
  /\ UNCHANGED <<sessions, now, ticks, cart>>

SweepQuery(c) ==
  /\ calls[c].pc = "sw_query"
  /\ calls' = [calls EXCEPT ![c].pc = "sw_commit",
                            ![c].found = {s \in Sids :
                                            /\ sessions[s].exists
                                            /\ sessions[s].status = "active"
                                            /\ GetTime(sessions[s].startTime) < OneHourAgo}]
  /\ UNCHANGED <<sessions, now, ticks, ops, cart>>

SweepCommit(c) ==
  /\ calls[c].pc = "sw_commit"
  /\ sessions' = [s \in Sids |->
                    IF s \in calls[c].found
                    THEN [sessions[s] EXCEPT !.status = "abandoned"]
                    ELSE sessions[s]]
  /\ calls' = [calls EXCEPT ![c] = Finish(@, [status |-> 200,
                                               count |-> Cardinality(calls[c].found)])]
  /\ UNCHANGED <<now, ticks, ops, cart>>

\* ----------------------------------------------- addMessageToSession
\* Runs with calls[c].msg and calls[c].intent set; continues at calls[c].ret.
\* Three reads of the document (history, counter and, with an intent, the
\* analytics), each its own await, then one update.
AddMessageReadHistory(c) ==
  /\ calls[c].pc = "am_hist"
  /\ calls' = [calls EXCEPT ![c].pc = "am_total",
                            ![c].rHist = getConversationHistory(calls[c].sid)]
  /\ UNCHANGED <<sessions, now, ticks, ops, cart>>

AddMessageReadTotal(c) ==
  /\ calls[c].pc = "am_total"
  /\ calls' = [calls EXCEPT ![c].pc = IF calls[c].intent # None THEN "am_ana" ELSE "am_write",
                            ![c].rTotal = getTotalMessages(calls[c].sid)]
  /\ UNCHANGED <<sessions, now, ticks, ops, cart>>

AddMessageReadAnalytics(c) ==
  /\ calls[c].pc = "am_ana"
  /\ LET session == getVoiceSession(calls[c].sid)
     IN  calls' = [calls EXCEPT ![c].pc = "am_write",
                                ![c].rAna = IF session.exists
                                            THEN Some(session.analytics)
                                            ELSE None]
  /\ UNCHANGED <<sessions, now, ticks, ops, cart>>

\* Variant that does not count the fallback intent.
CountIntentKnownOnly(analytics, intent) ==
  IF intent = "unknown"
  THEN analytics
  ELSE [analytics EXCEPT !.intents =
          Spread(analytics.intents,
                 [i \in {intent} |-> IntentCount(analytics.intents, intent) + 1])]

\* updates.analytics = {...session.analytics, intents: {...intents, [intent]: count + 1}}
CountIntent(analytics, intent) ==
  [analytics EXCEPT !.intents =
     Spread(analytics.intents,
            [i \in {intent} |-> IntentCount(analytics.intents, intent) + 1])]

\* Variant that puts the new message in front of the history it read.
AddMessageUpdatesInFront(doc, call) ==
  LET withMessage ==
        [doc EXCEPT !.conversationHistory = <<call.msg>> \o call.rHist,
                    !.metadata.totalMessages = call.rTotal + 1]
  IN  IF call.rAna # None
      THEN [withMessage EXCEPT !.analytics = CountIntent(The(call.rAna), The(call.intent))]
      ELSE withMessage

\* sessionRef.update(updates): conversationHistory and analytics are replaced
\* whole, metadata.totalMessages is a field path.
AddMessageUpdates(doc, call) ==
  LET withMessage ==
        [doc EXCEPT !.conversationHistory = Append(call.rHist, call.msg),
                    !.metadata.totalMessages = call.rTotal + 1]
  IN  IF call.rAna # None
      THEN [withMessage EXCEPT !.analytics = CountIntent(The(call.rAna), The(call.intent))]
      ELSE withMessage

AddMessageWrite(c) ==
  /\ calls[c].pc = "am_write"
  /\ sessions[calls[c].sid].exists
  /\ sessions' = [sessions EXCEPT ![calls[c].sid] = AddMessageUpdates(@, calls[c])]
  /\ calls' = [calls EXCEPT ![c] = Resume(@)]
  /\ UNCHANGED <<now, ticks, ops, cart>>

\* ------------------------------------------------ analytics trackers
\* What a handler returns when a service call throws: process-audio's and
\* add-to-cart's catch blocks answer 500; a direct service call rejects.
Thrown(call) ==
  Finish(call, [status |-> 500,
                error |-> IF call.kind = "turn"
                          THEN "Failed to process audio"
                          ELSE "rejected"])

Products == {"p1"}

\* trackProductDiscussion(sessionId, productId): read, then maybe one update.
TrackProductBegin(c) ==
  /\ \E sid \in Sids, productId \in Products :
       Begin(c, [IdleCall EXCEPT !.kind = "track", !.pc = "pd_read", !.sid = sid,
                                 !.arg = Some(productId), !.ret = "done",
                                 !.result = [status |-> 200]])
  /\ UNCHANGED <<sessions, now, ticks, cart>>

\* Variant without the includes() test: the id is appended every time.
TrackProductLookedUnchecked(call, session) ==
  IF ~session.exists
  THEN Resume(call)
  ELSE [call EXCEPT !.pc = "pd_write", !.read = Some(session)]

\* The session read and productsDiscussed.includes(productId).
TrackProductLooked(call, session) ==
  IF ~session.exists
     \/ \E i \in 1..Len(session.analytics.productsDiscussed) :
          session.analytics.productsDiscussed[i] = The(call.arg)
  THEN Resume(call)
  ELSE [call EXCEPT !.pc = "pd_write", !.read = Some(session)]

TrackProductRead(c) ==
  /\ calls[c].pc = "pd_read"
  /\ calls' = [calls EXCEPT ![c] = TrackProductLooked(@, getVoiceSession(calls[c].sid))]
  /\ UNCHANGED <<sessions, now, ticks, ops, cart>>

TrackProductWrite(c) ==
  /\ calls[c].pc = "pd_write"
  /\ sessions[calls[c].sid].exists
  /\ sessions' = [sessions EXCEPT ![calls[c].sid].analytics.productsDiscussed =
                    Append(The(calls[c].read).analytics.productsDiscussed, The(calls[c].arg))]
  /\ calls' = [calls EXCEPT ![c] = Resume(@)]
  /\ UNCHANGED <<now, ticks, ops, cart>>

\* trackConversionAttempt(sessionId): read, then one update.
TrackConversionRead(c) ==
  /\ calls[c].pc = "tc_read"
  /\ LET session == getVoiceSession(calls[c].sid)
     IN  calls' = [calls EXCEPT ![c] =
           IF ~session.exists
           THEN Resume(calls[c])
           ELSE [calls[c] EXCEPT !.pc = "tc_write", !.read = Some(session)]]
  /\ UNCHANGED <<sessions, now, ticks, ops, cart>>

TrackConversionWrite(c) ==
  /\ calls[c].pc = "tc_write"
  /\ sessions[calls[c].sid].exists
  /\ sessions' = [sessions EXCEPT ![calls[c].sid].analytics.conversionsAttempted =
                    The(calls[c].read).analytics.conversionsAttempted + 1]
  /\ calls' = [calls EXCEPT ![c] = Resume(@)]
  /\ UNCHANGED <<now, ticks, ops, cart>>

\* updateSessionContext(sessionId, context): read, then one update of the
\* whole context.  A patch field that is undefined (None) is a value the
\* store either rejects (update throws) or drops, by a setting made outside
\* these files.
ContextPatches ==
  {[funnelStage |-> Some("checkout")],
   [currentProducts |-> Some(<<[id |-> "p1"]>>)]}

HasUndefined(patch) == \E k \in DOMAIN patch : patch[k] = None

UpdateContextBegin(c) ==
  /\ \E sid \in Sids, patch \in ContextPatches :
       Begin(c, [IdleCall EXCEPT !.kind = "context", !.pc = "ctx_read", !.sid = sid,
                                 !.arg = Some(patch), !.ret = "done",
                                 !.result = [status |-> 200]])
  /\ UNCHANGED <<sessions, now, ticks, cart>>

UpdateContextRead(c) ==
  /\ calls[c].pc = "ctx_read"
  /\ LET session == getVoiceSession(calls[c].sid)
     IN  calls' = [calls EXCEPT ![c] =
           IF ~session.exists
           THEN Thrown(calls[c])
           ELSE [calls[c] EXCEPT !.pc = "ctx_write", !.read = Some(session)]]
  /\ UNCHANGED <<sessions, now, ticks, ops, cart>>

UpdateContextWrite(c) ==
  /\ calls[c].pc = "ctx_write"
  /\ sessions[calls[c].sid].exists
  /\ LET patch == The(calls[c].arg)
         merged == Spread(The(calls[c].read).context, patch)
         stored == /\ sessions' = [sessions EXCEPT ![calls[c].sid].context = merged]
                   /\ calls' = [calls EXCEPT ![c] = Resume(@)]
         rejected == /\ HasUndefined(patch)
                     /\ calls' = [calls EXCEPT ![c] = Thrown(@)]
                     /\ UNCHANGED sessions
     IN  stored \/ rejected
  /\ UNCHANGED <<now, ticks, ops, cart>>

\* ------------------------------------- POST /api/voice/process-audio
\* What the transcriber may return: the words it heard (none: an empty
\* transcript).
Transcripts ==
  {<<>>,
   <<"hello">>,
   <<"where", "is", "my", "order">>}

\* What the model may reply.
Replies ==
  {<<"sure">>,
   <<"the", "next", "step">>}

ProcessAudioBegin(c) ==
  /\ \E sid \in Sids :
       Begin(c, [IdleCall EXCEPT !.kind = "turn", !.pc = "t_load", !.sid = sid])
  /\ UNCHANGED <<sessions, now, ticks, cart>>

\* const session = await getVoiceSession(sessionId); 404 when null.
ProcessAudioLoaded(call, session) ==
  IF ~session.exists
  THEN Finish(call, [status |-> 404, error |-> "Session not found"])
  ELSE [call EXCEPT !.pc = "t_transcribe", !.session = session]

ProcessAudioLoad(c) ==
  /\ calls[c].pc = "t_load"
  /\ calls' = [calls EXCEPT ![c] = ProcessAudioLoaded(@, getVoiceSession(calls[c].sid))]
  /\ UNCHANGED <<sessions, now, ticks, ops, cart>>

\* transcribeAudio throws (the catch answers 500), or returns a transcript;
\* an empty one is answered 400 before anything is written.
\* Variant without the test of line 51: an empty transcript is appended like any other.
ProcessAudioTranscribedUnchecked(call, transcript) ==
  [call EXCEPT !.pc = "am_hist", !.transcript = transcript,
               !.msg = Message("user", transcript), !.intent = None,
               !.ret = "t_context"]

ProcessAudioTranscribed(call, transcript) ==
  IF Len(transcript) = 0
  THEN Finish(call, [status |-> 400, error |-> "Could not transcribe audio"])
  ELSE [call EXCEPT !.pc = "am_hist", !.transcript = transcript,
                    !.msg = Message("user", transcript), !.intent = None,
                    !.ret = "t_context"]

ProcessAudioTranscribeFrom(c, transcripts) ==
  /\ calls[c].pc = "t_transcribe"
  /\ \/ \E transcript \in transcripts :
          calls' = [calls EXCEPT ![c] = ProcessAudioTranscribed(@, transcript)]
     \/ calls' = [calls EXCEPT ![c] = Thrown(@)]
  /\ UNCHANGED <<sessions, now, ticks, ops, cart>>

ProcessAudioTranscribe(c) == ProcessAudioTranscribeFrom(c, Transcripts)

\* buildAssistantContext(session, context): from the session loaded at the
\* start of the handler; the cart is added for a logged-in customer when the
\* lookup succeeds.
buildAssistantContext(session, cartFound) ==
  LET base == [customerId |-> session.customerId,
               language |-> session.language,
               conversationHistory |-> session.conversationHistory,
               funnelStage |-> session.context.funnelStage]
  IN  IF session.customerId # None /\ cartFound
      THEN Spread(base, [customerName |-> "name", cartItems |-> cart])
      ELSE base

\* Step 3: the context is built (for a logged-in customer the cart query is
\* awaited; its failure is caught inside buildAssistantContext).
\* Variant in which a failed cart lookup of a logged-in customer is not
\* caught and ends the request.
ProcessAudioContextedCartThrows(call, cartFound) ==
  IF call.session.customerId # None /\ ~cartFound
  THEN Thrown(call)
  ELSE [call EXCEPT !.pc = "t_generate",
                    !.ctx = Some(buildAssistantContext(call.session, cartFound))]

\* Variant that builds the context from the session as stored now.
ProcessAudioContextedFresh(call, cartFound) ==
  [call EXCEPT !.pc = "t_generate",
               !.ctx = Some(buildAssistantContext(sessions[call.sid], cartFound))]

ProcessAudioContexted(call, cartFound) ==
  [call EXCEPT !.pc = "t_generate",
               !.ctx = Some(buildAssistantContext(call.session, cartFound))]

ProcessAudioContext(c) ==
  /\ calls[c].pc = "t_context"
  /\ \E cartFound \in BOOLEAN :
       calls' = [calls EXCEPT ![c] = ProcessAudioContexted(@, cartFound)]
  /\ UNCHANGED <<sessions, now, ticks, ops, cart>>

\* What generateAssistantResponse hands to the model: startChat with the
\* context's history (messages.slice(0, -1)), then sendMessage(userInput).
ChatRequest(userInput, context) ==
  [history |-> [i \in 1..Len(context.conversationHistory) |->
                  [role |-> IF context.conversationHistory[i].role = "user"
                            THEN "user" ELSE "model",
                   text |-> context.conversationHistory[i].content]],
   message |-> userInput]

\* Steps 4 and 5: call the model with the context, and start appending the
\* assistant message with its intent.  The context is not used afterwards.
ProcessAudioGenerated(call, reply) ==
  LET aiResponse == generateAssistantResponse(call.transcript, The(call.ctx), reply)
  IN  [call EXCEPT !.pc = "am_hist", !.ctx = None,
                   !.ai = Some(aiResponse),
                   !.msg = Message("assistant", aiResponse.text),
                   !.intent = Some(aiResponse.intent),
                   !.todo = IF aiResponse.suggestedActions # None
                            THEN The(aiResponse.suggestedActions) ELSE <<>>,
                   !.ret = "t_dispatch"]

ProcessAudioGenerateFrom(c, replies) ==
  /\ calls[c].pc = "t_generate"
  /\ \E reply \in {Some(r) : r \in replies} \cup {None} :
       calls' = [calls EXCEPT ![c] = ProcessAudioGenerated(@, reply)]
  /\ UNCHANGED <<sessions, now, ticks, ops, cart>>

ProcessAudioGenerate(c) == ProcessAudioGenerateFrom(c, Replies)

\* processSuggestedActions: one action of the list per step; when the list is
\* done, step 7 (trackConversionAttempt for add_to_cart and checkout).
ConversionIntents == {"add_to_cart", "checkout"}

ProcessAudioDispatched(call) ==
  IF call.todo = <<>>
  THEN IF The(call.ai).intent \in ConversionIntents
       THEN [call EXCEPT !.pc = "tc_read", !.ret = "t_webhook"]
       ELSE [call EXCEPT !.pc = "t_webhook"]
  ELSE LET action == Head(call.todo)
           rest == [call EXCEPT !.todo = Tail(call.todo)]
       IN  CASE action.type = "add_to_cart" /\ Field(action.data, "productId") # None ->
                  [rest EXCEPT !.pc = "pd_read", !.arg = Field(action.data, "productId"),
                               !.ret = "t_dispatch"]
             [] action.type = "navigate_funnel" ->
                  [rest EXCEPT !.pc = "ctx_read",
                               !.arg = Some([funnelStage |-> Field(action.data, "stage")]),
                               !.ret = "t_dispatch"]
             [] OTHER -> rest

ProcessAudioDispatch(c) ==
  /\ calls[c].pc = "t_dispatch"
  /\ calls' = [calls EXCEPT ![c] = ProcessAudioDispatched(@)]
  /\ UNCHANGED <<sessions, now, ticks, ops, cart>>

\* Step 8: triggerWebhook is called once with the configured URL.  It posts
\* nothing when no URL is configured, and catches a failed or non-OK post;
\* the route ignores what it returns and catches what it throws.
WebhookOutcomes == {"ok", "throws"}

ProcessAudioWebhookFrom(c, outcomes) ==
  /\ calls[c].pc = "t_webhook"
  /\ \E outcome \in outcomes :
       calls' = [calls EXCEPT ![c].pc = "t_respond", ![c].hook = outcome]
  /\ UNCHANGED <<sessions, now, ticks, ops, cart>>

ProcessAudioWebhook(c) == ProcessAudioWebhookFrom(c, WebhookOutcomes)

\* Variant in which a webhook that throws fails the turn.
ProcessAudioResponseHookFails(call) ==
  IF call.hook = "throws"
  THEN [status |-> 500, error |-> "Failed to process audio"]
  ELSE [status |-> 200,
        transcription |-> call.transcript,
        text |-> The(call.ai).text,
        intent |-> The(call.ai).intent,
        actions |-> The(call.ai).suggestedActions]

\* The response.
ProcessAudioResponse(call) ==
  [status |-> 200,
   transcription |-> call.transcript,
   text |-> The(call.ai).text,
   intent |-> The(call.ai).intent,
   actions |-> The(call.ai).suggestedActions]

ProcessAudioReturn(c) ==
  /\ calls[c].pc = "t_respond"
  /\ calls' = [calls EXCEPT ![c] = Finish(@, ProcessAudioResponse(@))]
  /\ UNCHANGED <<sessions, now, ticks, ops, cart>>

\* --------------------------------------- POST /api/voice/end-session
\* satisfactionScore of the request body, if any.
Scores == {None, Some(5)}

EndSessionBegin(c) ==
  /\ \E sid \in Sids, satisfactionScore \in Scores :
       Begin(c, [IdleCall EXCEPT !.kind = "end", !.pc = "e_load", !.sid = sid,
                                 !.arg = satisfactionScore])
  /\ UNCHANGED <<sessions, now, ticks, cart>>

\* The response is built from the session as loaded before ending it; the
\* summary is asked for only when there is a conversation.
EndSessionResponse(session) ==
  [status |-> 200,
   summary |-> Len(session.conversationHistory) > 0,
   analytics |-> [totalMessages |-> session.metadata.totalMessages,
                  intents |-> session.analytics.intents,
                  productsDiscussed |-> session.analytics.productsDiscussed,
                  conversionsAttempted |-> session.analytics.conversionsAttempted]]

\* Variant without the test of the loaded session: success is answered
\* for an id the store does not hold.
EndSessionLoadedUnchecked(call, session) ==
  IF ~session.exists
  THEN Finish(call, [status |-> 200])
  ELSE [call EXCEPT !.pc = "e_read", !.session = session]

\* const session = await getVoiceSession(sessionId); 404 when null.
EndSessionLoaded(call, session) ==
  IF ~session.exists
  THEN Finish(call, [status |-> 404, error |-> "Session not found"])
  ELSE [call EXCEPT !.pc = "e_read", !.session = session]

EndSessionLoad(c) ==
  /\ calls[c].pc = "e_load"
  /\ calls' = [calls EXCEPT ![c] = EndSessionLoaded(@, getVoiceSession(calls[c].sid))]
  /\ UNCHANGED <<sessions, now, ticks, ops, cart>>

\* endVoiceSession reads the session again; without one it returns.
EndSessionRead(c) ==
  /\ calls[c].pc = "e_read"
  /\ LET session == getVoiceSession(calls[c].sid)
     IN  calls' = [calls EXCEPT ![c] =
           IF ~session.exists
           THEN Finish(@, EndSessionResponse(calls[c].session))
           ELSE [@ EXCEPT !.pc = "e_write", !.read = Some(session)]]
  /\ UNCHANGED <<sessions, now, ticks, ops, cart>>

\* Math.floor((new Date().getTime() - new Date(session.startTime).getTime()) / 1000)
Duration(startTime, t) == (GetTime(t) - GetTime(startTime)) \div MsPerSecond

\* The update of endVoiceSession; `satisfactionScore && {...}` writes the
\* score only when it is given and not 0.
EndUpdates(doc, read, satisfactionScore, t) ==
  LET ended == [doc EXCEPT !.status = "completed",
                           !.endTime = Some(t),
                           !.metadata.totalDuration = Some(Duration(read.startTime, t))]
  IN  IF satisfactionScore # None /\ satisfactionScore # Some(0)
      THEN [ended EXCEPT !.analytics.satisfactionScore = satisfactionScore]
      ELSE ended

EndSessionWrite(c) ==
  /\ calls[c].pc = "e_write"
  /\ sessions[calls[c].sid].exists
  /\ sessions' = [sessions EXCEPT ![calls[c].sid] =
                    EndUpdates(@, The(calls[c].read), calls[c].arg, now)]
  /\ calls' = [calls EXCEPT ![c] = Finish(@, EndSessionResponse(calls[c].session))]
  /\ UNCHANGED <<now, ticks, ops, cart>>

\* ---------------------------------------- POST /api/voice/add-to-cart
\* sessionId of the request body: a session id, or 0 when there is none.
CartBegin(c) ==
  /\ \E sid \in Sids \cup {0} :
       Begin(c, [IdleCall EXCEPT !.kind = "cart", !.pc = "c_add", !.sid = sid,
                                 !.ret = "done",
                                 !.result = [status |-> 200, success |-> TRUE]])
  /\ UNCHANGED <<sessions, now, ticks, cart>>

\* The login check and cart.addLines; then trackConversionAttempt when the
\* request names a session.
CartAddLines(c) ==
  /\ calls[c].pc = "c_add"
  /\ \/ /\ cart' = Append(cart, "variant")
        /\ calls' = [calls EXCEPT ![c] =
             IF calls[c].sid # 0
             THEN [@ EXCEPT !.pc = "tc_read"]
             ELSE Finish(@, calls[c].result)]
     \/ /\ \E status \in {400, 401} :
             calls' = [calls EXCEPT ![c] = Finish(@, [status |-> status, success |-> FALSE])]
        /\ UNCHANGED cart
  /\ UNCHANGED <<sessions, now, ticks, ops>>

\* ---------------------------------------------------------------- Next
Next ==
  \/ Tick
  \/ StartSession
  \/ PauseSession
  \/ ResumeSession
  \/ \E c \in CallIds :
       \/ SweepBegin(c) \/ SweepQuery(c) \/ SweepCommit(c)
       \/ TrackProductBegin(c) \/ TrackProductRead(c) \/ TrackProductWrite(c)
       \/ TrackConversionRead(c) \/ TrackConversionWrite(c)
       \/ UpdateContextBegin(c) \/ UpdateContextRead(c) \/ UpdateContextWrite(c)
       \/ AddMessageReadHistory(c) \/ AddMessageReadTotal(c)
       \/ AddMessageReadAnalytics(c) \/ AddMessageWrite(c)
       \/ ProcessAudioBegin(c) \/ ProcessAudioLoad(c) \/ ProcessAudioTranscribe(c)
       \/ ProcessAudioContext(c)
       \/ ProcessAudioGenerate(c) \/ ProcessAudioDispatch(c)
       \/ ProcessAudioWebhook(c) \/ ProcessAudioReturn(c)
       \/ EndSessionBegin(c) \/ EndSessionLoad(c) \/ EndSessionRead(c) \/ EndSessionWrite(c)
       \/ CartBegin(c) \/ CartAddLines(c)

Spec == Init /\ [][Next]_vars

\* ------------------------------------------- requests one after another
\* The same handlers when a client sends each request after the previous one
\* has returned: a request starts only when none is in flight.  With no
\* overlap to explore, the transcriber and the model range over more texts
\* and the webhook over every way it can end.
Quiet == \A e \in CallIds : Free(e)

SeqTranscripts ==
  Transcripts \cup
  {<<"add", "this", "to", "my", "cart">>,
   <<"find", "me", "a", "red", "dress">>,
   <<"show", "me", "my", "order", "status", "and", "track", "it">>,
   <<"Next">>}

SeqReplies ==
  Replies \cup
  {<<"Searching", "for", "'red dress'">>}

SeqWebhookOutcomes == WebhookOutcomes \cup {"not_ok", "not_configured"}

NextSeq ==
  \/ Tick
  \/ StartSession
  \/ Quiet /\ PauseSession
  \/ Quiet /\ ResumeSession
  \/ \E c \in CallIds :
       \/ Quiet /\ SweepBegin(c)
       \/ SweepQuery(c) \/ SweepCommit(c)
       \/ Quiet /\ TrackProductBegin(c)
       \/ TrackProductRead(c) \/ TrackProductWrite(c)
       \/ TrackConversionRead(c) \/ TrackConversionWrite(c)
       \/ Quiet /\ UpdateContextBegin(c)
       \/ UpdateContextRead(c) \/ UpdateContextWrite(c)
       \/ AddMessageReadHistory(c) \/ AddMessageReadTotal(c)
       \/ AddMessageReadAnalytics(c) \/ AddMessageWrite(c)
       \/ Quiet /\ ProcessAudioBegin(c)
       \/ ProcessAudioLoad(c)
       \/ ProcessAudioTranscribeFrom(c, SeqTranscripts)
       \/ ProcessAudioContext(c)
       \/ ProcessAudioGenerateFrom(c, SeqReplies)
       \/ ProcessAudioDispatch(c)
       \/ ProcessAudioWebhookFrom(c, SeqWebhookOutcomes)
       \/ ProcessAudioReturn(c)
       \/ Quiet /\ EndSessionBegin(c)
       \/ EndSessionLoad(c) \/ EndSessionRead(c) \/ EndSessionWrite(c)
       \/ Quiet /\ CartBegin(c)
       \/ CartAddLines(c)

SpecSeq == Init /\ [][NextSeq]_vars

\* --------------------------------------------- turns one after another
\* The handlers when a client sends each processTurn of a session after the
\* previous one has returned, while requests of the other kinds may still
\* overlap with a turn and with each other.
TurnQuiet == \A e \in CallIds : calls[e].kind = "turn" => Free(e)

NextTurnSeq ==
  \/ Tick
  \/ StartSession
  \/ PauseSession
  \/ ResumeSession
  \/ \E c \in CallIds :
       \/ SweepBegin(c) \/ SweepQuery(c) \/ SweepCommit(c)
       \/ TrackProductBegin(c) \/ TrackProductRead(c) \/ TrackProductWrite(c)
       \/ TrackConversionRead(c) \/ TrackConversionWrite(c)
       \/ UpdateContextBegin(c) \/ UpdateContextRead(c) \/ UpdateContextWrite(c)
       \/ AddMessageReadHistory(c) \/ AddMessageReadTotal(c)
       \/ AddMessageReadAnalytics(c) \/ AddMessageWrite(c)
       \/ TurnQuiet /\ ProcessAudioBegin(c)
       \/ ProcessAudioLoad(c) \/ ProcessAudioTranscribe(c)
       \/ ProcessAudioContext(c)
       \/ ProcessAudioGenerate(c) \/ ProcessAudioDispatch(c)
       \/ ProcessAudioWebhook(c) \/ ProcessAudioReturn(c)
       \/ EndSessionBegin(c) \/ EndSessionLoad(c) \/ EndSessionRead(c) \/ EndSessionWrite(c)
       \/ CartBegin(c) \/ CartAddLines(c)

SpecTurnSeq == Init /\ [][NextTurnSeq]_vars

\* ============================================================== claims
\* A step taken by request c.
StepOf(c) == calls'[c] # calls[c]

\* Request c returns in this step.
Returns(c) == calls[c].pc # "done" /\ calls'[c].pc = "done"

IsPrefix(a, b) == Len(a) <= Len(b) /\ SubSeq(b, 1, Len(a)) = a

RECURSIVE SumOver(_, _)
SumOver(f, keys) ==
  IF keys = {} THEN 0
  ELSE LET k == CHOOSE x \in keys : TRUE
       IN  f[k] + SumOver(f, keys \ {k})

SumIntents(intents) == SumOver(intents, DOMAIN intents)

\* C1: a processTurn that loads a completed or abandoned session ends there
\* with an error, and no step of a processTurn that loaded such a session
\* changes the stored history or totalMessages.
C1_TerminalTurnRejected ==
  [][\A c \in CallIds :
       /\ ( /\ calls[c].pc = "t_load"
            /\ StepOf(c)
            /\ sessions[calls[c].sid].exists
            /\ Terminal(sessions[calls[c].sid].status) )
          => (calls'[c].pc = "done" /\ calls'[c].result.status # 200)
       /\ ( /\ calls[c].kind = "turn"
            /\ StepOf(c)
            /\ calls[c].session.exists
            /\ Terminal(calls[c].session.status) )
          => /\ sessions'[calls[c].sid].conversationHistory
                  = sessions[calls[c].sid].conversationHistory
             /\ sessions'[calls[c].sid].metadata.totalMessages
                  = sessions[calls[c].sid].metadata.totalMessages
    ]_vars

\* C2: when the only two requests of a fresh session are two processTurn
\* calls and both have returned success, the history holds 4 entries,
\* totalMessages is 4 and the per-intent counts add up to 2, however the two
\* calls overlapped.
C2_ConcurrentTurnsKeepAllWrites ==
  \A c, d \in CallIds :
    ( /\ c # d
      /\ ops = 2
      /\ calls[c].kind = "turn" /\ calls[c].pc = "done" /\ calls[c].result.status = 200
      /\ calls[d].kind = "turn" /\ calls[d].pc = "done" /\ calls[d].result.status = 200
      /\ calls[c].sid = calls[d].sid )
    => LET session == sessions[calls[c].sid]
       IN  /\ Len(session.conversationHistory) = 4
           /\ session.metadata.totalMessages = 4
           /\ SumIntents(session.analytics.intents) = 2

\* C3: whenever a processTurn returns success, the session's totalMessages
\* equals the length of its conversationHistory.
C3_TotalMessagesIsHistoryLength ==
  [][\A c \in CallIds :
       ( /\ calls[c].kind = "turn"
         /\ Returns(c)
         /\ calls'[c].result.status = 200 )
       => sessions'[calls[c].sid].metadata.totalMessages
            = Len(sessions'[calls[c].sid].conversationHistory)
    ]_vars

\* C4: no step takes a session from completed or abandoned to active.
C4_NoReturnToActive ==
  [][\A s \in Sids :
       (sessions[s].exists /\ Terminal(sessions[s].status))
       => sessions'[s].status # "active"
    ]_vars

\* C5: an end-session that loaded the session already completed returns
\* success with the analytics an earlier end-session returned, and none of its
\* steps changes the stored session.
C5_EndSessionIdempotent ==
  [][\A c \in CallIds :
       ( /\ calls[c].kind = "end"
         /\ StepOf(c)
         /\ calls[c].session.exists
         /\ calls[c].session.status = "completed" )
       => /\ sessions'[calls[c].sid] = sessions[calls[c].sid]
          /\ Returns(c) =>
               /\ calls'[c].result.status = 200
               /\ \A d \in CallIds \ {c} :
                    ( /\ calls[d].kind = "end" /\ calls[d].pc = "done"
                      /\ calls[d].sid = calls[c].sid
                      /\ calls[d].result.status = 200 )
                    => calls'[c].result.analytics = calls[d].result.analytics
    ]_vars

\* C6: a processTurn whose model call threw returns success with the fallback
\* text, intent 'unknown' and an empty list of actions, and at its return
\* the user's transcript of the turn is in the stored history.
C6_FallbackReply ==
  [][\A c \in CallIds :
       ( /\ calls[c].kind = "turn"
         /\ Returns(c)
         /\ calls[c].ai # None
         /\ The(calls[c].ai).intent = "unknown" )
       => /\ calls'[c].result.status = 200
          /\ calls'[c].result.text = FallbackText
          /\ calls'[c].result.intent = "unknown"
          /\ calls'[c].result.actions = Some(<<>>)
          /\ \E i \in 1..Len(sessions'[calls[c].sid].conversationHistory) :
               sessions'[calls[c].sid].conversationHistory[i]
                 = Message("user", calls[c].transcript)
    ]_vars

\* C7: a processTurn goes past transcription only with a non-empty
\* transcript; with an empty one it returns 400 'Could not transcribe audio'
\* from the transcription step, and neither that step nor the load before it
\* changes anything in the store.
C7_EmptyTranscriptLeavesSession ==
  [][\A c \in CallIds :
       /\ ( /\ StepOf(c)
            /\ \/ calls[c].kind = "turn" /\ calls[c].pc \in {"t_load", "t_transcribe"}
               \/ calls'[c].kind = "turn" /\ calls'[c].pc = "t_load" )
          => sessions' = sessions
       /\ ( calls[c].pc = "t_transcribe" /\ StepOf(c) /\ ~Returns(c) )
          => Len(calls'[c].transcript) > 0
       /\ ( /\ calls[c].kind = "turn"
            /\ Returns(c)
            /\ calls'[c].result = [status |-> 400, error |-> "Could not transcribe audio"] )
          => calls[c].pc = "t_transcribe"
    ]_vars

\* C7 witness: a processTurn has returned 400 'Could not transcribe audio'
\* on a stored session that is still active and has no message.
C7_Witness ==
  \E c \in CallIds :
    /\ calls[c].kind = "turn"
    /\ calls[c].pc = "done"
    /\ calls[c].result = [status |-> 400, error |-> "Could not transcribe audio"]
    /\ sessions[calls[c].sid].exists
    /\ sessions[calls[c].sid].status = "active"
    /\ sessions[calls[c].sid].conversationHistory = <<>>

\* C8: once the stored status of a session is completed or abandoned, no
\* step of a processTurn (its action dispatch and conversion tracking
\* included) or of a voice add-to-cart request changes its history, context
\* or analytics.
C8_TerminalIsReadOnly ==
  [][\A c \in CallIds :
       ( /\ calls[c].kind \in {"turn", "cart"}
         /\ StepOf(c)
         /\ calls[c].sid \in Sids
         /\ sessions[calls[c].sid].exists
         /\ Terminal(sessions[calls[c].sid].status) )
       => /\ sessions'[calls[c].sid].conversationHistory
               = sessions[calls[c].sid].conversationHistory
          /\ sessions'[calls[c].sid].context = sessions[calls[c].sid].context
          /\ sessions'[calls[c].sid].analytics = sessions[calls[c].sid].analytics
    ]_vars

\* C9: in every step, the stored history of an active session before the
\* step is a prefix of its stored history after the step.
C9_HistoryAppendOnly ==
  [][\A s \in Sids :
       (sessions[s].exists /\ sessions[s].status = "active")
       => IsPrefix(sessions[s].conversationHistory, sessions'[s].conversationHistory)
    ]_vars

\* C10: in every step on a session that has not ended, no per-intent count
\* and not conversionsAttempted gets lower, and every id in productsDiscussed
\* stays in it.
C10_AnalyticsMonotone ==
  [][\A s \in Sids :
       (sessions[s].exists /\ ~Terminal(sessions[s].status))
       => LET before == sessions[s].analytics
              after == sessions'[s].analytics
          IN  /\ \A i \in DOMAIN before.intents :
                   IntentCount(after.intents, i) >= before.intents[i]
              /\ after.conversionsAttempted >= before.conversionsAttempted
              /\ \A k \in 1..Len(before.productsDiscussed) :
                   \E m \in 1..Len(after.productsDiscussed) :
                     after.productsDiscussed[m] = before.productsDiscussed[k]
    ]_vars

\* C11: with requests sent one after another, a processTurn that returns
\* success leaves the stored history equal to the history it loaded followed
\* by its user entry and then its assistant entry: the entries of a turn are
\* adjacent, in that order, and after all entries of the turns before it.
C11_SequentialTurnsInOrder ==
  [][\A c \in CallIds :
       ( /\ calls[c].kind = "turn"
         /\ Returns(c)
         /\ calls'[c].result.status = 200 )
       => sessions'[calls[c].sid].conversationHistory
            = calls[c].session.conversationHistory
              \o <<Message("user", calls[c].transcript),
                   Message("assistant", The(calls[c].ai).text)>>
    ]_vars

\* C11 witness: two processTurn calls, one after the other, have returned
\* success and the history is user, assistant, user, assistant.
C11_Witness ==
  /\ \A c \in CallIds :
       calls[c].kind = "turn" /\ calls[c].pc = "done" /\ calls[c].result.status = 200
  /\ \E s \in Sids :
       /\ sessions[s].exists
       /\ Len(sessions[s].conversationHistory) = 4
       /\ \A i \in 1..4 :
            sessions[s].conversationHistory[i].role
              = IF i % 2 = 1 THEN "user" ELSE "assistant"

\* C12: the batch write of a sweep changes only sessions that are active and
\* were created more than the threshold ago, changes nothing of them but the
\* status (to abandoned), and the sweep returns the number of sessions it
\* changed; a session paused or ended since the scan is left as it is.
C12_SweepExact ==
  [][\A c \in CallIds :
       ( calls[c].pc = "sw_commit" /\ StepOf(c) )
       => /\ \A s \in Sids :
               sessions'[s] # sessions[s]
               => /\ sessions[s].exists
                  /\ sessions[s].status = "active"
                  /\ GetTime(sessions[s].startTime) < OneHourAgo
                  /\ sessions'[s] = [sessions[s] EXCEPT !.status = "abandoned"]
          /\ calls'[c].result.count
               = Cardinality({s \in Sids : sessions'[s] # sessions[s]})
    ]_vars

\* C13: a processTurn with utterance "add this to my cart", answered by the
\* model, on a session whose stored context holds one current product
\* returns success with an
\* add_to_cart action carrying that product's id, and at its return the id is
\* in analytics.productsDiscussed.
C13_AddToCartScenario ==
  [][\A c \in CallIds :
       ( /\ calls[c].kind = "turn"
         /\ Returns(c)
         /\ calls'[c].result.status = 200
         /\ calls[c].transcript = <<"add", "this", "to", "my", "cart">>
         /\ The(calls[c].ai).text # FallbackText
         /\ calls[c].session.context.currentProducts # None
         /\ Len(The(calls[c].session.context.currentProducts)) = 1 )
       => LET productId == The(calls[c].session.context.currentProducts)[1].id
              actions == calls'[c].result.actions
              discussed == sessions'[calls[c].sid].analytics.productsDiscussed
          IN  /\ actions # None
              /\ \E i \in 1..Len(The(actions)) :
                   The(actions)[i] = [type |-> "add_to_cart",
                                      data |-> [productId |-> productId]]
              /\ \E k \in 1..Len(discussed) : discussed[k] = productId
    ]_vars

\* C14: the first processTurn of a session with language en-US, with
\* utterance "find me a red dress" and answered by the model with any reply,
\* returns intent product_search and a search_products action, and at its
\* return analytics.intents['product_search'] is 1.
C14_ProductSearchScenario ==
  [][\A c \in CallIds :
       ( /\ calls[c].kind = "turn"
         /\ Returns(c)
         /\ calls'[c].result.status = 200
         /\ calls[c].transcript = <<"find", "me", "a", "red", "dress">>
         /\ The(calls[c].ai).text # FallbackText
         /\ calls[c].session.language = "en-US"
         /\ calls[c].session.conversationHistory = <<>> )
       => LET actions == calls'[c].result.actions
          IN  /\ calls'[c].result.intent = "product_search"
              /\ actions # None
              /\ \E i \in 1..Len(The(actions)) :
                   The(actions)[i].type = "search_products"
              /\ IntentCount(sessions'[calls[c].sid].analytics.intents,
                             "product_search") = 1
    ]_vars

\* C15: an end-session for an id the store holds no session under returns
\* 404 'Session not found', and no step of an end-session creates a session
\* record.
C15_EndUnknownSession ==
  [][\A c \in CallIds :
       ( calls[c].kind = "end" /\ calls[c].pc # "done" /\ StepOf(c) )
       => /\ ( calls[c].pc = "e_load" /\ ~sessions[calls[c].sid].exists )
             => /\ calls'[c].pc = "done"
                /\ calls'[c].result = [status |-> 404, error |-> "Session not found"]
          /\ \A s \in Sids : ~sessions[s].exists => ~sessions'[s].exists
    ]_vars

\* C15 witness: an end-session has returned 404 and the store holds no
\* session under the id it named.
C15_Witness ==
  \E c \in CallIds :
    /\ calls[c].kind = "end"
    /\ calls[c].pc = "done"
    /\ calls[c].result.status = 404
    /\ ~sessions[calls[c].sid].exists

\* C16: when an end-session makes the session completed and returns success,
\* the analytics of its response (totalMessages, intents, productsDiscussed,
\* conversionsAttempted) are those stored in the session at that moment.
C16_EndReturnsFinalAnalytics ==
  [][\A c \in CallIds :
       ( /\ calls[c].pc = "e_write"
         /\ StepOf(c)
         /\ calls'[c].result.status = 200 )
       => calls'[c].result.analytics
            = EndSessionResponse(sessions'[calls[c].sid]).analytics
    ]_vars

\* The status changes the session state machine permits.
AllowedTransitions ==
  {<<"active", "paused">>, <<"paused", "active">>,
   <<"active", "completed">>, <<"paused", "completed">>,
   <<"active", "abandoned">>}

\* C17: every step that changes the stored status of a session takes one
\* of the permitted edges: active->paused, paused->active, active->completed,
\* paused->completed, active->abandoned; completed and abandoned are never
\* left.
C17_OnlyAllowedTransitions ==
  [][\A s \in Sids :
       ( /\ sessions[s].exists
         /\ sessions'[s].status # sessions[s].status )
       => <<sessions[s].status, sessions'[s].status>> \in AllowedTransitions
    ]_vars

\* A step of pauseVoiceSession or resumeVoiceSession: a request counted
\* without a handler left in flight.
LifecycleStep == ops' = ops + 1 /\ calls' = calls

\* C18: a pause changes a session only when it is active: a lifecycle step
\* that leaves a session paused either found it active or changed nothing
\* of it, and no such step creates a session record.
C18_PauseOnlyFromActive ==
  [][LifecycleStep
     => \A s \in Sids :
          /\ ~sessions[s].exists => ~sessions'[s].exists
          /\ ( /\ sessions[s].exists
               /\ sessions'[s].status = "paused"
               /\ sessions[s].status # "active" )
             => sessions'[s] = sessions[s]
    ]_vars

\* Positions of a processTurn inside processSuggestedActions: between two
\* actions, or in the handler of one.
DispatchPcs == {"t_dispatch", "pd_read", "pd_write", "ctx_read", "ctx_write"}

\* C19: the dispatch of a turn's suggested actions always completes: a step
\* of a processTurn inside processSuggestedActions never ends the request,
\* it goes on to the next action or to the steps after the dispatch, and
\* drops no action that is still to be dispatched.
C19_ActionFailureIsolated ==
  [][\A c \in CallIds :
       ( /\ calls[c].kind = "turn"
         /\ calls[c].pc \in DispatchPcs
         /\ StepOf(c) )
       => /\ calls'[c].pc \in DispatchPcs \cup {"tc_read", "t_webhook"}
          /\ \/ calls'[c].todo = calls[c].todo
             \/ calls[c].pc = "t_dispatch" /\ calls'[c].todo = Tail(calls[c].todo)
    ]_vars

\* C20: with requests sent one after another, when a processTurn returns
\* anything but success the stored history is either the one the turn loaded
\* or that history followed by the turn's user entry alone (and the store is
\* untouched when the turn found no session): never with its assistant entry.
C20_FailureLeavesAtMostUserTurn ==
  [][\A c \in CallIds :
       ( /\ calls[c].kind = "turn"
         /\ Returns(c)
         /\ calls'[c].result.status # 200 )
       => IF calls[c].session.exists
          THEN sessions'[calls[c].sid].conversationHistory
                 \in {calls[c].session.conversationHistory,
                      Append(calls[c].session.conversationHistory,
                             Message("user", calls[c].transcript))}
          ELSE sessions' = sessions
    ]_vars

\* C21: a processTurn goes through trackConversionAttempt exactly when its
\* intent is add_to_cart or checkout, whatever actions it dispatched; that
\* step raises the stored conversionsAttempted by exactly 1 and no other
\* step of a processTurn changes it.
C21_ConversionCountedOncePerTurn ==
  [][\A c \in CallIds :
       ( /\ calls[c].kind = "turn"
         /\ calls[c].pc # "done"
         /\ StepOf(c)
         /\ sessions[calls[c].sid].exists )
       => LET before == sessions[calls[c].sid].analytics.conversionsAttempted
              after == sessions'[calls[c].sid].analytics.conversionsAttempted
          IN  /\ after = IF calls[c].pc = "tc_write" THEN before + 1 ELSE before
              /\ ( calls[c].pc = "t_dispatch" /\ calls[c].todo = <<>> )
                 => ( calls'[c].pc = "tc_read"
                      <=> The(calls[c].ai).intent \in ConversionIntents )
              /\ calls'[c].pc = "tc_read" => calls[c].pc = "t_dispatch"
    ]_vars

\* C22: the update of addMessageToSession for a message with intent i leaves
\* the stored analytics as they were except intents[i], which goes up by 1
\* (from 0 when absent); for a message without intent it leaves the stored
\* analytics unchanged.
C22_IntentCountFrame ==
  [][\A c \in CallIds :
       ( calls[c].pc = "am_write" /\ StepOf(c) )
       => sessions'[calls[c].sid].analytics
            = IF calls[c].intent # None
              THEN CountIntent(sessions[calls[c].sid].analytics, The(calls[c].intent))
              ELSE sessions[calls[c].sid].analytics
    ]_vars

\* C23: two processTurn calls that returned success for the same utterance
\* returned the same intent, whatever the model replied to each or whether
\* it replied at all.
C23_IntentDependsOnUtteranceOnly ==
  \A c, d \in CallIds :
    ( /\ calls[c].kind = "turn" /\ calls[c].pc = "done" /\ calls[c].result.status = 200
      /\ calls[d].kind = "turn" /\ calls[d].pc = "done" /\ calls[d].result.status = 200
      /\ calls[c].result.transcription = calls[d].result.transcription )
    => calls[c].result.intent = calls[d].result.intent

\* C24: the context update a processTurn makes for a navigate_funnel action
\* carries a defined stage, sets the stored context's funnelStage to it and
\* leaves the other fields of the stored context as they were.
C24_NavigateFunnelSetsStage ==
  [][\A c \in CallIds :
       ( /\ calls[c].kind = "turn"
         /\ calls[c].pc = "ctx_write"
         /\ StepOf(c) )
       => LET stage == The(calls[c].arg).funnelStage
          IN  /\ stage # None
              /\ sessions'[calls[c].sid].context
                   = [sessions[calls[c].sid].context EXCEPT !.funnelStage = stage]
    ]_vars

\* The product id is in the session's stored productsDiscussed.
Discussed(sid, productId) ==
  /\ sessions[sid].exists
  /\ \E i \in 1..Len(sessions[sid].analytics.productsDiscussed) :
       sessions[sid].analytics.productsDiscussed[i] = productId

\* C25: in every reachable state no stored productsDiscussed holds an id
\* twice, also when dispatches for the same product overlap; a
\* trackProductDiscussion that finds its product already stored writes
\* nothing; and no step of it changes the cart.
C25_ProductsDiscussedIsSet ==
  /\ [](\A s \in Sids :
          sessions[s].exists
          => \A i, j \in 1..Len(sessions[s].analytics.productsDiscussed) :
               i # j => sessions[s].analytics.productsDiscussed[i]
                          # sessions[s].analytics.productsDiscussed[j])
  /\ [][\A c \in CallIds :
          ( calls[c].pc \in {"pd_read", "pd_write"} /\ StepOf(c) )
          => /\ cart' = cart
             /\ ( calls[c].pc = "pd_read" /\ Discussed(calls[c].sid, The(calls[c].arg)) )
                => ( sessions' = sessions /\ calls'[c].pc # "pd_write" )
       ]_vars

\* C25 witness: two dispatches for the same product overlapped: one is about
\* to write the id the other has stored since the first one's read, and the
\* stored list holds the id.
C25_Witness ==
  \E c \in CallIds :
    /\ calls[c].pc = "pd_write"
    /\ Discussed(calls[c].sid, The(calls[c].arg))

\* C26: the context assembly of a processTurn never ends the request and
\* writes nothing: whether or not the cart lookup succeeded the turn goes on
\* to generation with a context, and from there the turn runs the same for
\* every reply of the model: same assistant message, intent, actions and
\* response as with a cart lookup that succeeded.
C26_CartLookupFailureTolerated ==
  /\ [][\A c \in CallIds :
          ( calls[c].pc = "t_context" /\ StepOf(c) )
          => /\ calls'[c].pc = "t_generate"
             /\ calls'[c].ctx # None
             /\ sessions' = sessions
       ]_vars
  /\ [](\A c \in CallIds :
          calls[c].pc = "t_generate"
          => \A reply \in {Some(r) : r \in SeqReplies} \cup {None} :
               ProcessAudioGenerated(ProcessAudioContexted(calls[c], TRUE), reply)
                 = ProcessAudioGenerated(ProcessAudioContexted(calls[c], FALSE), reply))

\* C26 witness: the turn of a logged-in customer has reached generation with
\* a context that holds no cart items.
C26_Witness ==
  \E c \in CallIds :
    /\ calls[c].pc = "t_generate"
    /\ calls[c].session.customerId # None
    /\ "cartItems" \notin DOMAIN The(calls[c].ctx)

\* C27: the webhook step of a processTurn is entered once, from the steps
\* before it, always goes on to the response and writes nothing; and the
\* turn then returns the success response it would return after a webhook
\* that succeeded, whatever way the webhook ended, without writing.
C27_WebhookNeverFailsTurn ==
  [][\A c \in CallIds :
       ( calls[c].kind = "turn" /\ StepOf(c) )
       => /\ calls[c].pc = "t_webhook"
             => ( calls'[c].pc = "t_respond" /\ sessions' = sessions )
          /\ calls[c].pc = "t_respond"
             => /\ Returns(c)
                /\ calls'[c].result.status = 200
                /\ calls'[c].result = ProcessAudioResponse([calls[c] EXCEPT !.hook = "ok"])
                /\ sessions' = sessions
          /\ calls'[c].pc = "t_webhook"
             => calls[c].pc \in {"t_dispatch", "tc_read", "tc_write"}
    ]_vars

\* C27 witness: the webhook of a turn has thrown and the turn is at its
\* response.
C27_Witness ==
  \E c \in CallIds :
    /\ calls[c].kind = "turn"
    /\ calls[c].pc = "t_respond"
    /\ calls[c].hook = "throws"

\* The assistant entries of a history.
AssistantEntries(history) ==
  Cardinality({i \in 1..Len(history) : history[i].role = "assistant"})

\* C28: when the turns of a session run one after another, in every
\* reachable state the per-intent counts of a session add up to the number
\* of assistant entries in its history; the fallback turn counts under
\* 'unknown'.
C28_IntentSumIsAssistantCount ==
  \A s \in Sids :
    sessions[s].exists
    => SumIntents(sessions[s].analytics.intents)
         = AssistantEntries(sessions[s].conversationHistory)

\* C28 witness: two turns have run, one of them the fallback turn, and both
\* are counted.
C28_Witness ==
  \E s \in Sids :
    /\ sessions[s].exists
    /\ AssistantEntries(sessions[s].conversationHistory) = 2
    /\ IntentCount(sessions[s].analytics.intents, "unknown") >= 1

\* C29: the chat request a processTurn is about to make holds, as history,
\* the history of the session the turn loaded at its start (so without the
\* user entry the turn has appended since, and without anything committed
\* since), and, as the one new message, the turn's utterance.
C29_ModelGetsLoadedHistory ==
  \A c \in CallIds :
    calls[c].pc = "t_generate"
    => LET chat == ChatRequest(calls[c].transcript, The(calls[c].ctx))
           loaded == calls[c].session.conversationHistory
       IN  /\ Len(chat.history) = Len(loaded)
           /\ \A i \in 1..Len(loaded) :
                /\ chat.history[i].text = loaded[i].content
                /\ chat.history[i].role
                     = IF loaded[i].role = "user" THEN "user" ELSE "model"
           /\ chat.message = calls[c].transcript

\* C29 witness: a turn is about to call the model while the stored history
\* holds an assistant entry, committed by another turn since this one loaded
\* the session, that the history handed to the model does not have.
C29_Witness ==
  \E c \in CallIds :
    /\ calls[c].pc = "t_generate"
    /\ \E i \in 1..Len(sessions[calls[c].sid].conversationHistory) :
         /\ sessions[calls[c].sid].conversationHistory[i].role = "assistant"
         /\ \A k \in 1..Len(The(calls[c].ctx).conversationHistory) :
              The(calls[c].ctx).conversationHistory[k].role # "assistant"

\* The keyword rules of the classifier, in the order it is to try them; the
\* last one also looks at the reply.
RuleProductSearch(input) ==
  /\ Matches(input, {<<"find">>, <<"search">>, <<"looking", "for">>,
                     <<"show", "me">>, <<"need">>})
  /\ Matches(input, {<<"product">>, <<"item">>, <<"clothing">>,
                     <<"shoe">>, <<"dress">>, <<"shirt">>})

RuleAddToCart(input) ==
  /\ Matches(input, {<<"add">>, <<"put">>, <<"place">>})
  /\ Matches(input, {<<"cart">>, <<"bag">>, <<"basket">>})

RuleCheckout(input) ==
  Matches(input, {<<"checkout">>, <<"buy">>, <<"purchase">>, <<"pay">>, <<"order">>})

RuleOrderStatus(input) ==
  /\ Matches(input, {<<"order">>, <<"tracking">>, <<"delivery">>,
                     <<"shipping">>, <<"status">>})
  /\ Matches(input, {<<"where">>, <<"when">>, <<"track">>, <<"status">>})

RuleFunnelNavigation(input, response) ==
  \/ Matches(input, {<<"next">>, <<"continue">>, <<"proceed">>, <<"back">>})
  \/ Matches(response, {<<"step">>, <<"stage">>, <<"funnel">>})

FirstMatch(input, response) ==
  CASE RuleProductSearch(input) -> "product_search"
    [] ~RuleProductSearch(input) /\ RuleAddToCart(input) -> "add_to_cart"
    [] ~RuleProductSearch(input) /\ ~RuleAddToCart(input) /\ RuleCheckout(input) ->
         "checkout"
    [] OTHER ->
         IF RuleOrderStatus(input) THEN "order_status"
         ELSE IF RuleFunnelNavigation(input, response) THEN "funnel_navigation"
         ELSE "general_help"

\* C30: every turn the model answered returned the intent of the first rule,
\* in the order product_search, add_to_cart, checkout, order_status,
\* funnel_navigation, that its utterance satisfies, and general_help when it
\* satisfies none; so an utterance with a checkout keyword that is neither a
\* product search nor an add-to-cart is checkout even when it also satisfies
\* the order_status rule.
C30_ClassifierFirstMatch ==
  \A c \in CallIds :
    ( /\ calls[c].kind = "turn"
      /\ calls[c].pc = "done"
      /\ calls[c].result.status = 200
      /\ calls[c].result.intent # "unknown" )
    => LET input == Lower(calls[c].result.transcription)
           response == Lower(calls[c].result.text)
       IN  /\ calls[c].result.intent = FirstMatch(input, response)
           /\ ( RuleCheckout(input) /\ ~RuleProductSearch(input) /\ ~RuleAddToCart(input) )
              => calls[c].result.intent = "checkout"

\* C30 witness: "show me my order status and track it", which satisfies the
\* checkout rule and the order_status rule, was classified checkout.
C30_Witness ==
  \E c \in CallIds :
    /\ calls[c].kind = "turn"
    /\ calls[c].pc = "done"
    /\ calls[c].result.status = 200
    /\ calls[c].result.transcription
         = <<"show", "me", "my", "order", "status", "and", "track", "it">>
    /\ RuleOrderStatus(Lower(calls[c].result.transcription))
    /\ calls[c].result.intent = "checkout"

=============================================================================
